---- MODULE Spec2Model ----
(***************************************************************************)
(* The nbp bridge (src/nbp/main.c): one thread multiplexing the backplate  *)
(* device link, the ZMQ_REP control socket and the ZMQ_XPUB publisher,     *)
(* with a periodic-refresh timer.  Time is in whole seconds.               *)
(*                                                                         *)
(* The device session (nest.c) and the timespec helpers (util.h) are      *)
(* modelled from the specification of the bridge.                          *)
(***************************************************************************)
EXTENDS Integers, Sequences, FiniteSets, TLC

VARIABLES
    pc,                    \* position of main(): start, reset, register, bind_ctl,
                           \*   publisher, loop, poll, disp0, nbp_read, disp1, disp2, aborted
    clock,                 \* CLOCK_MONOTONIC, seconds
    quiet,                 \* environment: no input becomes ready any more
    ts_now,                \* main's local ts_now
    ts_timeout,            \* main's local ts_timeout
    ts_next_periodic_req,  \* the static deadline
    nbp,                   \* struct nbp_device: callbacks and DeviceState
    ctl_bound,             \* the control endpoint is bound
    pub_bound,             \* the publish endpoint is bound
    revents,               \* indexes of pollitems whose revents has ZMQ_POLLIN
    pending,               \* framed messages nbp_read still has to dispatch
    effects,               \* what the last step did, in order
    dispatched,            \* pollitems serviced in the current iteration, in order
    n_periodic,            \* NBPM_REQ_PERIODIC messages sent so far
    n_reset_complete,      \* runs of the body of reset_complete so far
    last_loop_req,         \* time of the last loop-triggered request_periodic
    last_weather,          \* arguments of the last weather callback, <<>> if none
    history                \* what the callbacks and the snapshot builder last saw and sent

vars == <<pc, clock, quiet, ts_now, ts_timeout, ts_next_periodic_req, nbp,
          ctl_bound, pub_bound, revents, pending, effects, dispatched,
          n_periodic, n_reset_complete, last_loop_req, last_weather, history>>

-----------------------------------------------------------------------------
(* Bounds of the model *)

MaxTime == 70
MaxMsgs == 2
MaxReq == 2

Delays == {0, 40}
WeatherReadings == {<<2150, 455>>, <<2200, 460>>}
PowerReadings == {<<191, 3900>>, <<64, 3700>>}
FetReadings == {<<0, TRUE>>, <<5, FALSE>>, <<5, TRUE>>}
ReqItems == {[wire |-> 2, connect |-> TRUE], [wire |-> 5, connect |-> FALSE]}
SubMsgs == {<<>>, <<0>>, <<1>>, <<0, 65>>, <<2, 65>>}

-----------------------------------------------------------------------------
(* Program constants *)

periodic_req_interval == 30
PB_HVACWIRES___COUNT == 6
Cleared == -1

Wires == 0 .. (PB_HVACWIRES___COUNT - 1)

-----------------------------------------------------------------------------
(* timespec helpers *)

timespec_isset(ts) == ts # Cleared

timespec_add_ms(a, ms) == a + (ms \div 1000)

timespec_passed(timer, now) == timespec_isset(timer) /\ timer <= now

timespec_reduce(timeout, timer) ==
    IF ~timespec_isset(timeout) \/ timer < timeout THEN timer ELSE timeout

\* The values timespec_passed may leave in *timeout.  When the timer has not
\* passed, the timeout is reduced to it.  When it has passed, the helper
\* either leaves the timeout alone or reduces it to the (passed) timer.
timespec_passed_timeout(timer, now, timeout) ==
    IF ~timespec_isset(timer) THEN {timeout}
    ELSE IF timer <= now THEN {timeout, timespec_reduce(timeout, timer)}
    ELSE {timespec_reduce(timeout, timer)}

\* -1 blocks without bound; zero or negative time left returns at once.
timespec_to_timeout_ms(now, timeout) ==
    IF ~timespec_isset(timeout) THEN -1
    ELSE IF timeout <= now THEN 0
    ELSE (timeout - now) * 1000

-----------------------------------------------------------------------------
(* Effects, events and the handlers' working state *)

Eff(k, v) == [k |-> k, v |-> v]

PbEvent(weather, battery, wire_change) ==
    [weather |-> weather, battery |-> battery, wire_change |-> wire_change]

\* zmq_send_protobuf on the publisher: the event reaches subscribers only
\* through a bound endpoint.
Publish(w, ev) ==
    [w EXCEPT !.eff = Append(@, Eff("publish", [ev |-> ev, bound |-> w.bound]))]

World ==
    [nbp |-> nbp, next |-> ts_next_periodic_req, bound |-> pub_bound,
     eff |-> <<>>, np |-> n_periodic, nrc |-> n_reset_complete,
     lastw |-> last_weather, hist |-> history, abort |-> FALSE]

Install(w) ==
    /\ nbp' = w.nbp
    /\ ts_next_periodic_req' = w.next
    /\ pub_bound' = w.bound
    /\ effects' = w.eff
    /\ n_periodic' = w.np
    /\ n_reset_complete' = w.nrc
    /\ last_weather' = w.lastw
    /\ history' = w.hist

\* A step that runs no handler leaves what the handlers work on alone.
NoHandler ==
    UNCHANGED <<nbp, ts_next_periodic_req, pub_bound, n_periodic,
                n_reset_complete, last_weather, history>>

-----------------------------------------------------------------------------
(* Handlers of main.c *)

\* Mutant: the deadline advances from the previous deadline.
request_periodic_from_deadline(w, now) ==
    [w EXCEPT !.next = timespec_add_ms(IF timespec_isset(w.next) THEN w.next ELSE now,
                                       periodic_req_interval * 1000),
              !.eff = Append(@, Eff("nbp_send", "NBPM_REQ_PERIODIC")),
              !.np = @ + 1]

request_periodic(w, now) ==
    [w EXCEPT !.next = timespec_add_ms(now, periodic_req_interval * 1000),
              !.eff = Append(@, Eff("nbp_send", "NBPM_REQ_PERIODIC")),
              !.np = @ + 1]

\* Mutant: the endpoint is bound before the first periodic refresh is sent.
reset_complete_bind_first(w, now, bind_ok) ==
    LET w0 == [w EXCEPT !.nbp.cb_msg_fet_presence = "NULL",
                        !.eff = Append(Append(@, Eff("call", "reset_complete")),
                                       Eff("bind", [ep |-> "events", ok |-> bind_ok])),
                        !.nrc = @ + 1]
    IN  IF bind_ok THEN request_periodic([w0 EXCEPT !.bound = TRUE], now)
        ELSE [w0 EXCEPT !.abort = TRUE]

\* Mutant: the handler stays registered.
reset_complete_stays_registered(w, now, bind_ok) ==
    LET w0 == [w EXCEPT !.eff = Append(@, Eff("call", "reset_complete")),
                        !.nrc = @ + 1]
        w1 == request_periodic(w0, now)
        w2 == [w1 EXCEPT !.eff = Append(@, Eff("bind", [ep |-> "events", ok |-> bind_ok]))]
    IN  IF bind_ok THEN [w2 EXCEPT !.bound = TRUE]
        ELSE [w2 EXCEPT !.abort = TRUE]

\* Mutant: a failed bind of "events" is ignored.
reset_complete_ignores_bind_failure(w, now, bind_ok) ==
    LET w0 == [w EXCEPT !.nbp.cb_msg_fet_presence = "NULL",
                        !.eff = Append(@, Eff("call", "reset_complete")),
                        !.nrc = @ + 1]
        w1 == request_periodic(w0, now)
    IN  [w1 EXCEPT !.eff = Append(@, Eff("bind", [ep |-> "events", ok |-> bind_ok])),
                   !.bound = bind_ok]

reset_complete(w, now, bind_ok) ==
    LET w0 == [w EXCEPT !.nbp.cb_msg_fet_presence = "NULL",
                        !.eff = Append(@, Eff("call", "reset_complete")),
                        !.nrc = @ + 1]
        w1 == request_periodic(w0, now)
        w2 == [w1 EXCEPT !.eff = Append(@, Eff("bind", [ep |-> "events", ok |-> bind_ok]))]
    IN  IF bind_ok THEN [w2 EXCEPT !.bound = TRUE]
        ELSE [w2 EXCEPT !.abort = TRUE]

msg_log(w) == [w EXCEPT !.eff = Append(@, Eff("call", "msg_log"))]

\* Mutant: the two fields are filled from each other's argument.
msg_weather_swapped(w, temperature, humidity) ==
    Publish([w EXCEPT !.eff = Append(@, Eff("call", "msg_weather")),
                      !.lastw = <<temperature, humidity>>],
            PbEvent(<<[temperature |-> humidity, humidity |-> temperature]>>,
                    <<>>, <<>>))

msg_weather(w, temperature, humidity) ==
    Publish([w EXCEPT !.eff = Append(@, Eff("call", "msg_weather")),
                      !.lastw = <<temperature, humidity>>],
            PbEvent(<<[temperature |-> temperature, humidity |-> humidity]>>,
                    <<>>, <<>>))

Charging(flags) == (flags \div 64) % 2 = 0

\* Mutant: charging is reported when bit 6 is set.
msg_power_status_inverted(w, flags, vb_mV) ==
    Publish([w EXCEPT !.eff = Append(@, Eff("call", "msg_power_status")),
                      !.hist.power = <<flags, vb_mV>>,
                      !.hist.battery = <<[charging |-> ~Charging(flags),
                                          voltage |-> vb_mV]>>],
            PbEvent(<<>>, <<[charging |-> ~Charging(flags), voltage |-> vb_mV]>>,
                    <<>>))

msg_power_status(w, flags, vb_mV) ==
    Publish([w EXCEPT !.eff = Append(@, Eff("call", "msg_power_status")),
                      !.hist.power = <<flags, vb_mV>>,
                      !.hist.battery = <<[charging |-> Charging(flags),
                                          voltage |-> vb_mV]>>],
            PbEvent(<<>>, <<[charging |-> Charging(flags), voltage |-> vb_mV]>>,
                    <<>>))

\* Mutant: n_wire_change is left at zero.
my_nbp_control_fet_cb_empty_list(w, fet, connect) ==
    Publish([w EXCEPT !.eff = Append(@, Eff("call", "my_nbp_control_fet_cb")),
                      !.hist.fet[fet] = <<connect>>],
            PbEvent(<<>>, <<>>, <<>>))

my_nbp_control_fet_cb(w, fet, connect) ==
    Publish([w EXCEPT !.eff = Append(@, Eff("call", "my_nbp_control_fet_cb")),
                      !.hist.fet[fet] = <<connect>>],
            PbEvent(<<>>, <<>>, <<[wire |-> fet, connect |-> connect]>>))

\* The device session's synchronous "set wire": its boolean result.
nbp_control_fet(fet, connect, fails) == ~fails

RECURSIVE handle_req_loop(_, _, _, _, _)
handle_req_loop(w, req, fails, i, reply) ==
    IF i > Len(req) THEN [w |-> w, reply |-> reply]
    ELSE LET ok == nbp_control_fet(req[i].wire, req[i].connect, i \in fails)
             w1 == [w EXCEPT !.eff = Append(@,
                        Eff("set_wire", [wire |-> req[i].wire,
                                         connect |-> req[i].connect,
                                         ok |-> ok]))]
         IN  handle_req_loop(w1, req, fails, i + 1, [reply EXCEPT ![i] = ok])

\* Mutant: the loop stops at the first failed item.
RECURSIVE handle_req_loop_stop(_, _, _, _, _)
handle_req_loop_stop(w, req, fails, i, reply) ==
    IF i > Len(req) THEN [w |-> w, reply |-> reply]
    ELSE LET ok == nbp_control_fet(req[i].wire, req[i].connect, i \in fails)
             w1 == [w EXCEPT !.eff = Append(@,
                        Eff("set_wire", [wire |-> req[i].wire,
                                         connect |-> req[i].connect,
                                         ok |-> ok]))]
         IN  IF ok
             THEN handle_req_loop_stop(w1, req, fails, i + 1, [reply EXCEPT ![i] = ok])
             ELSE [w |-> w1, reply |-> [reply EXCEPT ![i] = ok]]

handle_req_stop_on_failure(w, s, req, fails) ==
    LET w0 == [w EXCEPT !.eff = Append(Append(@, Eff("call", "handle_req")),
                                       Eff("recv", [s |-> s, req |-> req]))]
        r  == handle_req_loop_stop(w0, req, fails, 1,
                                   [j \in 1 .. Len(req) |-> "uninit"])
    IN  [r.w EXCEPT !.eff = Append(@, Eff("reply", [s |-> s, reply |-> r.reply]))]

\* Mutant: no reply when every item failed.
handle_req_silent_on_total_failure(w, s, req, fails) ==
    LET w0 == [w EXCEPT !.eff = Append(Append(@, Eff("call", "handle_req")),
                                       Eff("recv", [s |-> s, req |-> req]))]
        r  == handle_req_loop(w0, req, fails, 1,
                              [j \in 1 .. Len(req) |-> "uninit"])
    IN  IF Len(req) > 0 /\ fails = 1 .. Len(req) THEN r.w
        ELSE [r.w EXCEPT !.eff = Append(@, Eff("reply", [s |-> s, reply |-> r.reply]))]

\* Mutant: before reset-complete every item is refused without a set-wire call.
handle_req_needs_reset(w, s, req, fails) ==
    LET w0 == [w EXCEPT !.eff = Append(Append(@, Eff("call", "handle_req")),
                                       Eff("recv", [s |-> s, req |-> req]))]
        r  == handle_req_loop(w0, req, fails, 1,
                              [j \in 1 .. Len(req) |-> "uninit"])
    IN  IF w.nbp.cb_msg_fet_presence = "NULL"
        THEN [r.w EXCEPT !.eff = Append(@, Eff("reply", [s |-> s, reply |-> r.reply]))]
        ELSE [w0 EXCEPT !.eff = Append(@, Eff("reply",
                  [s |-> s, reply |-> [j \in 1 .. Len(req) |-> FALSE]]))]

handle_req(w, s, req, fails) ==
    LET w0 == [w EXCEPT !.eff = Append(Append(@, Eff("call", "handle_req")),
                                       Eff("recv", [s |-> s, req |-> req]))]
        r  == handle_req_loop(w0, req, fails, 1,
                              [j \in 1 .. Len(req) |-> "uninit"])
    IN  [r.w EXCEPT !.eff = Append(@, Eff("reply", [s |-> s, reply |-> r.reply]))]

nbp_get_fet_asserted(dev, i) == dev.fet_asserted[i]

\* Mutant: the loop stops one wire short.
RECURSIVE wire_change_loop_short(_, _, _)
wire_change_loop_short(dev, i, acc) ==
    IF i >= PB_HVACWIRES___COUNT - 1 THEN acc
    ELSE LET asserted == nbp_get_fet_asserted(dev, i)
         IN  IF asserted = "FTS_UNKNOWN"
             THEN wire_change_loop_short(dev, i + 1, acc)
             ELSE wire_change_loop_short(dev, i + 1,
                      Append(acc, [wire |-> i, connect |-> (asserted = "FTS_TRUE")]))

RECURSIVE wire_change_loop(_, _, _)
wire_change_loop(dev, i, acc) ==
    IF i >= PB_HVACWIRES___COUNT THEN acc
    ELSE LET asserted == nbp_get_fet_asserted(dev, i)
         IN  IF asserted = "FTS_UNKNOWN"
             THEN wire_change_loop(dev, i + 1, acc)
             ELSE wire_change_loop(dev, i + 1,
                      Append(acc, [wire |-> i, connect |-> (asserted = "FTS_TRUE")]))

\* Mutant: the weather sub-record is attached without looking at has_weather.
Snapshot_always_weather(dev) ==
    PbEvent(<<[temperature |-> dev.temperature, humidity |-> dev.humidity]>>,
            IF dev.has_powerinfo
            THEN <<[charging |-> Charging(dev.power_flags), voltage |-> dev.vb_mV]>>
            ELSE <<>>,
            wire_change_loop(dev, 0, <<>>))

\* Mutant: the humidity field is filled from the temperature.
Snapshot_mixed_weather(dev) ==
    PbEvent(IF dev.has_weather
            THEN <<[temperature |-> dev.temperature, humidity |-> dev.temperature]>>
            ELSE <<>>,
            IF dev.has_powerinfo
            THEN <<[charging |-> Charging(dev.power_flags), voltage |-> dev.vb_mV]>>
            ELSE <<>>,
            wire_change_loop(dev, 0, <<>>))

Snapshot(dev) ==
    PbEvent(IF dev.has_weather
            THEN <<[temperature |-> dev.temperature, humidity |-> dev.humidity]>>
            ELSE <<>>,
            IF dev.has_powerinfo
            THEN <<[charging |-> Charging(dev.power_flags), voltage |-> dev.vb_mV]>>
            ELSE <<>>,
            wire_change_loop(dev, 0, <<>>))

\* Mutant: the leading byte is not examined.
got_new_subscriber_any_byte(w, msg) ==
    LET w0 == [w EXCEPT !.eff = Append(Append(@, Eff("call", "got_new_subscriber")),
                                       Eff("sub_recv", msg))]
    IN  IF Len(msg) < 1 THEN w0
        ELSE Publish(w0, Snapshot(w0.nbp))

\* The last two snapshots sent since the latest device callback.
Remember(seen, ev) == IF seen = <<>> THEN <<ev>> ELSE <<seen[Len(seen)], ev>>

\* Mutant: the weather reading is forgotten once it has been sent.
got_new_subscriber_consumes_weather(w, msg) ==
    LET w0 == [w EXCEPT !.eff = Append(Append(@, Eff("call", "got_new_subscriber")),
                                       Eff("sub_recv", msg))]
    IN  IF Len(msg) < 1 THEN w0
        ELSE IF msg[1] = 0 THEN w0
        ELSE Publish([w0 EXCEPT !.hist.snapshot = Remember(@, Snapshot(w0.nbp)),
                                !.nbp.has_weather = FALSE],
                     Snapshot(w0.nbp))

got_new_subscriber(w, msg) ==
    LET w0 == [w EXCEPT !.eff = Append(Append(@, Eff("call", "got_new_subscriber")),
                                       Eff("sub_recv", msg))]
    IN  IF Len(msg) < 1 THEN w0
        ELSE IF msg[1] = 0 THEN w0
        ELSE Publish([w0 EXCEPT !.hist.snapshot = Remember(@, Snapshot(w0.nbp))],
                     Snapshot(w0.nbp))

-----------------------------------------------------------------------------
(* main(): setup *)

\* power: <<flags, vb_mV>> of the last power-status callback; battery: the
\* battery sub-record it sent; fet[i]: <<connect>> of the last assert callback
\* for wire i; snapshot: the event of the last snapshot since the last device
\* callback.  Each is <<>> when there is none.
NoHistory ==
    [power |-> <<>>, battery |-> <<>>, fet |-> [i \in Wires |-> <<>>],
     snapshot |-> <<>>]

NoDevice ==
    [cb_msg_fet_presence |-> "NULL", cb_msg_log |-> "NULL",
     cb_msg_power_status |-> "NULL", cb_msg_weather |-> "NULL",
     cb_asserting_fet_control |-> "NULL",
     has_weather |-> FALSE, temperature |-> 0, humidity |-> 0,
     has_powerinfo |-> FALSE, power_flags |-> 0, vb_mV |-> 0,
     fet_asserted |-> [i \in Wires |-> "FTS_UNKNOWN"]]

Init ==
    /\ pc = "start"
    /\ clock = 0
    /\ quiet = FALSE
    /\ ts_now = 0
    /\ ts_timeout = 0
    /\ ts_next_periodic_req = 0
    /\ nbp = NoDevice
    /\ ctl_bound = FALSE
    /\ pub_bound = FALSE
    /\ revents = {}
    /\ pending = 0
    /\ effects = <<>>
    /\ dispatched = <<>>
    /\ n_periodic = 0
    /\ n_reset_complete = 0
    /\ last_loop_req = Cleared
    /\ last_weather = <<>>
    /\ history = NoHistory

\* nbp_open and assert(nbp)
MainOpen ==
    /\ pc = "start"
    /\ \E ok \in BOOLEAN :
        /\ pc' = IF ok THEN "reset" ELSE "aborted"
        /\ effects' = <<Eff("nbp_open", ok)>>
    /\ UNCHANGED <<clock, quiet, ts_now, ts_timeout, ts_next_periodic_req, nbp,
                   ctl_bound, pub_bound, revents, pending, dispatched,
                   n_periodic, n_reset_complete, last_loop_req, last_weather, history>>

\* assert(nbp_send(nbp, NBPM_RESET, NULL, 0))
MainReset ==
    /\ pc = "reset"
    /\ \E ok \in BOOLEAN :
        /\ pc' = IF ok THEN "register" ELSE "aborted"
        /\ effects' = <<Eff("nbp_send", "NBPM_RESET"), Eff("sent", ok)>>
    /\ UNCHANGED <<clock, quiet, ts_now, ts_timeout, ts_next_periodic_req, nbp,
                   ctl_bound, pub_bound, revents, pending, dispatched,
                   n_periodic, n_reset_complete, last_loop_req, last_weather, history>>

MainRegister ==
    /\ pc = "register"
    /\ nbp' = [nbp EXCEPT !.cb_msg_fet_presence = "reset_complete",
                          !.cb_msg_log = "msg_log",
                          !.cb_msg_power_status = "msg_power_status",
                          !.cb_msg_weather = "msg_weather",
                          !.cb_asserting_fet_control = "my_nbp_control_fet_cb"]
    /\ pc' = "bind_ctl"
    /\ effects' = <<>>
    /\ UNCHANGED <<clock, quiet, ts_now, ts_timeout, ts_next_periodic_req,
                   ctl_bound, pub_bound, revents, pending, dispatched,
                   n_periodic, n_reset_complete, last_loop_req, last_weather, history>>

\* assert(fabdcfg_zmq_bind(my_devid, "control", my_zmq_ctl))
MainBindCtl ==
    /\ pc = "bind_ctl"
    /\ \E ok \in BOOLEAN :
        /\ pc' = IF ok THEN "publisher" ELSE "aborted"
        /\ ctl_bound' = ok
        /\ effects' = <<Eff("bind", [ep |-> "control", ok |-> ok])>>
    /\ UNCHANGED <<clock, quiet, ts_now, ts_timeout, ts_next_periodic_req, nbp,
                   pub_bound, revents, pending, dispatched,
                   n_periodic, n_reset_complete, last_loop_req, last_weather, history>>

\* Mutant: the deadline is not cleared before the loop.
MainPublisher_no_clear ==
    /\ pc = "publisher"
    /\ pc' = "loop"
    /\ effects' = <<>>
    /\ UNCHANGED <<clock, quiet, ts_now, ts_timeout, ts_next_periodic_req, nbp,
                   ctl_bound, pub_bound, revents, pending, dispatched,
                   n_periodic, n_reset_complete, last_loop_req, last_weather, history>>

\* The publisher socket is created but not bound; the deadline is cleared.
MainPublisher ==
    /\ pc = "publisher"
    /\ ts_next_periodic_req' = Cleared
    /\ pc' = "loop"
    /\ effects' = <<>>
    /\ UNCHANGED <<clock, quiet, ts_now, ts_timeout, nbp,
                   ctl_bound, pub_bound, revents, pending, dispatched,
                   n_periodic, n_reset_complete, last_loop_req, last_weather, history>>

-----------------------------------------------------------------------------
(* main(): the loop *)

\* Lines 217-220: the deadline check at the top of an iteration.
main_deadline_check(w, now) ==
    IF timespec_passed(w.next, now) THEN request_periodic(w, now) ELSE w

LoopTop ==
    /\ pc = "loop"
    /\ ts_now' = clock
    /\ \E t \in timespec_passed_timeout(ts_next_periodic_req, clock, Cleared) :
        ts_timeout' = t
    /\ Install(main_deadline_check(World, clock))
    /\ last_loop_req' = IF timespec_passed(ts_next_periodic_req, clock)
                        THEN clock ELSE last_loop_req
    /\ pc' = "poll"
    /\ dispatched' = <<>>
    /\ UNCHANGED <<clock, quiet, ctl_bound, revents, pending>>

\* The environment stops producing input.
GoQuiet ==
    /\ pc = "poll"
    /\ ~quiet
    /\ quiet' = TRUE
    /\ UNCHANGED <<pc, clock, ts_now, ts_timeout, ts_next_periodic_req, nbp,
                   ctl_bound, pub_bound, revents, pending, effects, dispatched,
                   n_periodic, n_reset_complete, last_loop_req, last_weather, history>>

PollMs == timespec_to_timeout_ms(ts_now, ts_timeout)

\* Mutant: only a timeout skips the dispatch; an error return falls through.
main_after_poll_error_falls_through(rc) == IF rc = 0 THEN "loop" ELSE "disp0"

\* if (zmq_poll(...) <= 0) continue;
main_after_poll(rc) == IF rc <= 0 THEN "loop" ELSE "disp0"

\* zmq_poll returns 0: the timeout expired with nothing ready.
PollTimeout ==
    /\ pc = "poll"
    /\ PollMs >= 0
    /\ clock + (PollMs \div 1000) <= MaxTime
    /\ clock' = clock + (PollMs \div 1000)
    /\ revents' = {}
    /\ effects' = <<Eff("zmq_poll", 0)>>
    /\ pc' = main_after_poll(0)
    /\ UNCHANGED <<quiet, ts_now, ts_timeout, ts_next_periodic_req, nbp,
                   ctl_bound, pub_bound, pending, dispatched,
                   n_periodic, n_reset_complete, last_loop_req, last_weather, history>>

\* An input can only arrive on a bound endpoint; the device link is open.
Readable == {0} \cup (IF ctl_bound THEN {1} ELSE {}) \cup (IF pub_bound THEN {2} ELSE {})

\* zmq_poll returns the number of ready items, after d seconds.
PollReady ==
    /\ pc = "poll"
    /\ ~quiet
    /\ \E d \in Delays, r \in (SUBSET Readable) \ {{}} :
        /\ PollMs = -1 \/ d * 1000 <= PollMs
        /\ clock + d <= MaxTime
        /\ clock' = clock + d
        /\ revents' = r
        /\ effects' = <<Eff("zmq_poll", Cardinality(r))>>
        /\ pc' = main_after_poll(Cardinality(r))
    /\ UNCHANGED <<quiet, ts_now, ts_timeout, ts_next_periodic_req, nbp,
                   ctl_bound, pub_bound, pending, dispatched,
                   n_periodic, n_reset_complete, last_loop_req, last_weather, history>>

\* zmq_poll returns -1 (interrupted), after d seconds.
PollError ==
    /\ pc = "poll"
    /\ ~quiet
    /\ \E d \in Delays :
        /\ PollMs = -1 \/ d * 1000 <= PollMs
        /\ clock + d <= MaxTime
        /\ clock' = clock + d
    /\ revents' = {}
    /\ effects' = <<Eff("zmq_poll", -1)>>
    /\ pc' = main_after_poll(-1)
    /\ UNCHANGED <<quiet, ts_now, ts_timeout, ts_next_periodic_req, nbp,
                   ctl_bound, pub_bound, pending, dispatched,
                   n_periodic, n_reset_complete, last_loop_req, last_weather, history>>

\* if (pollitems[0].revents & ZMQ_POLLIN) nbp_read(nbp);
MainDev ==
    /\ pc = "disp0"
    /\ IF 0 \in revents
       THEN /\ pc' = "nbp_read"
            /\ \E n \in 0 .. MaxMsgs : pending' = n
            /\ dispatched' = Append(dispatched, 0)
            /\ effects' = <<Eff("call", "nbp_read")>>
       ELSE /\ pc' = "disp1"
            /\ effects' = <<>>
            /\ UNCHANGED <<pending, dispatched>>
    /\ UNCHANGED <<clock, quiet, ts_now, ts_timeout, ts_next_periodic_req, nbp,
                   ctl_bound, pub_bound, revents,
                   n_periodic, n_reset_complete, last_loop_req, last_weather, history>>

\* One framed message handled inside nbp_read: the world after its callback.
NbpDispatch(w) ==
    /\ pc = "nbp_read"
    /\ pending > 0
    /\ pending' = pending - 1
    /\ Install([w EXCEPT !.hist.snapshot = <<>>])
    /\ pc' = IF w.abort THEN "aborted" ELSE "nbp_read"
    /\ UNCHANGED <<clock, quiet, ts_now, ts_timeout, ctl_bound, revents,
                   dispatched, last_loop_req>>

DevFetPresence ==
    \E bind_ok \in BOOLEAN :
        NbpDispatch(IF nbp.cb_msg_fet_presence = "reset_complete"
                    THEN reset_complete(World, clock, bind_ok)
                    ELSE [World EXCEPT !.eff = <<Eff("ignored", "fet_presence")>>])

DevWeather ==
    \E r \in WeatherReadings :
        NbpDispatch(msg_weather(
            [World EXCEPT !.nbp.has_weather = TRUE,
                          !.nbp.temperature = r[1],
                          !.nbp.humidity = r[2]], r[1], r[2]))

DevPowerStatus ==
    \E r \in PowerReadings :
        NbpDispatch(msg_power_status(
            [World EXCEPT !.nbp.has_powerinfo = TRUE,
                          !.nbp.power_flags = r[1],
                          !.nbp.vb_mV = r[2]], r[1], r[2]))

DevLog == NbpDispatch(msg_log(World))

DevFetAssert ==
    \E r \in FetReadings :
        NbpDispatch(my_nbp_control_fet_cb(
            [World EXCEPT !.nbp.fet_asserted[r[1]] =
                              IF r[2] THEN "FTS_TRUE" ELSE "FTS_FALSE"], r[1], r[2]))

NbpReadReturn ==
    /\ pc = "nbp_read"
    /\ pending = 0
    /\ pc' = "disp1"
    /\ effects' = <<>>
    /\ UNCHANGED <<clock, quiet, ts_now, ts_timeout, ts_next_periodic_req, nbp,
                   ctl_bound, pub_bound, revents, pending, dispatched,
                   n_periodic, n_reset_complete, last_loop_req, last_weather, history>>

RECURSIVE SeqsUpTo(_, _)
SeqsUpTo(S, n) ==
    IF n = 0 THEN {<<>>}
    ELSE LET shorter == SeqsUpTo(S, n - 1)
         IN  shorter \cup {Append(q, x) : q \in shorter, x \in S}

\* Mutant: handle_req is called whether or not the control socket is ready.
MainCtl_unconditional ==
    /\ pc = "disp1"
    /\ \E req \in SeqsUpTo(ReqItems, MaxReq) :
        \E fails \in SUBSET (1 .. Len(req)) :
            Install(handle_req(World, "my_zmq_ctl", req, fails))
    /\ dispatched' = Append(dispatched, 1)
    /\ pc' = "disp2"
    /\ UNCHANGED <<clock, quiet, ts_now, ts_timeout, ctl_bound, revents,
                   pending, last_loop_req>>

\* if (pollitems[1].revents & ZMQ_POLLIN) handle_req(my_zmq_ctl, nbp);
MainCtl ==
    /\ pc = "disp1"
    /\ IF 1 \in revents
       THEN /\ \E req \in SeqsUpTo(ReqItems, MaxReq) :
                \E fails \in SUBSET (1 .. Len(req)) :
                    Install(handle_req(World, "my_zmq_ctl", req, fails))
            /\ dispatched' = Append(dispatched, 1)
       ELSE /\ effects' = <<>>
            /\ NoHandler
            /\ UNCHANGED dispatched
    /\ pc' = "disp2"
    /\ UNCHANGED <<clock, quiet, ts_now, ts_timeout, ctl_bound, revents,
                   pending, last_loop_req>>

\* if (pollitems[2].revents & ZMQ_POLLIN) got_new_subscriber(my_zmq_publisher, nbp);
MainPub ==
    /\ pc = "disp2"
    /\ IF 2 \in revents
       THEN /\ \E msg \in SubMsgs : Install(got_new_subscriber(World, msg))
            /\ dispatched' = Append(dispatched, 2)
       ELSE /\ effects' = <<>>
            /\ NoHandler
            /\ UNCHANGED dispatched
    /\ pc' = "loop"
    /\ UNCHANGED <<clock, quiet, ts_now, ts_timeout, ctl_bound, revents,
                   pending, last_loop_req>>

Setup == MainOpen \/ MainReset \/ MainRegister \/ MainBindCtl \/ MainPublisher

Program ==
    \/ LoopTop
    \/ PollTimeout
    \/ MainDev
    \/ DevFetPresence
    \/ DevWeather
    \/ DevPowerStatus
    \/ DevLog
    \/ DevFetAssert
    \/ NbpReadReturn
    \/ MainCtl
    \/ MainPub

Next ==
    \/ MainOpen
    \/ MainReset
    \/ MainRegister
    \/ MainBindCtl
    \/ MainPublisher
    \/ LoopTop
    \/ GoQuiet
    \/ PollTimeout
    \/ PollReady
    \/ PollError
    \/ MainDev
    \/ DevFetPresence
    \/ DevWeather
    \/ DevPowerStatus
    \/ DevLog
    \/ DevFetAssert
    \/ NbpReadReturn
    \/ MainCtl
    \/ MainPub

Spec == Init /\ [][Next]_vars

\* The single thread runs whenever it can; input and interrupts are up to
\* the environment.
LiveSpec == Init /\ [][Next]_vars /\ WF_vars(Program)

-----------------------------------------------------------------------------
(* Reading the effects of a step *)

CallIs(eff, h) == Len(eff) >= 1 /\ eff[1].k = "call" /\ eff[1].v = h

Count(eff, k) == Cardinality({i \in 1 .. Len(eff) : eff[i].k = k})

IsSend(e, m) == e.k = "nbp_send" /\ e.v = m

IsBind(e, ep) == e.k = "bind" /\ e.v.ep = ep

-----------------------------------------------------------------------------
(* Claims *)

\* C1: whenever the publish endpoint is bound, reset-complete has been
\* delivered and a periodic-refresh message has been sent; the "events" bind
\* happens only inside reset_complete, right after its periodic-refresh send;
\* no event reaches a subscriber and no subscription notification is
\* processed before reset completion.
C1_BindAfterReset ==
    /\ pub_bound => (n_reset_complete >= 1 /\ n_periodic >= 1)
    /\ \A i \in 1 .. Len(effects) :
        /\ IsBind(effects[i], "events") =>
              /\ i = 3
              /\ CallIs(effects, "reset_complete")
              /\ IsSend(effects[2], "NBPM_REQ_PERIODIC")
        /\ (effects[i].k = "publish" /\ effects[i].v.bound) => n_reset_complete >= 1
        /\ effects[i].k = "sub_recv" => n_reset_complete >= 1

C1_Witness ==
    /\ pub_bound
    /\ CallIs(effects, "reset_complete")
    /\ Len(effects) = 3
    /\ IsBind(effects[3], "events")

\* C2: reset_complete runs at most once; a later delivery of the FET
\* presence message sends no periodic-refresh message, leaves the refresh
\* deadline alone and does not bind the publish endpoint again.
FetPresenceDelivered(eff) ==
    /\ Len(eff) >= 1
    /\ \/ eff[1].k = "ignored"
       \/ CallIs(eff, "reset_complete")

C2_SingleFire ==
    [][(pc = "nbp_read" /\ n_reset_complete >= 1 /\ FetPresenceDelivered(effects'))
        => /\ n_reset_complete' = 1
           /\ n_periodic' = n_periodic
           /\ ts_next_periodic_req' = ts_next_periodic_req
           /\ pub_bound' = pub_bound
           /\ Count(effects', "nbp_send") = 0
           /\ Count(effects', "bind") = 0]_vars

C2_Witness ==
    /\ n_reset_complete = 1
    /\ Len(effects) = 1
    /\ effects[1].k = "ignored"

\* C3: a control request with N items makes exactly N set-wire calls, in
\* request order, and its reply has exactly N booleans, reply[i] being the
\* result of the call for item i, whichever items fail.
C3_ReplyPerItem ==
    CallIs(effects, "handle_req") =>
        LET req == effects[2].v.req
            N == Len(req)
        IN  /\ Len(effects) = N + 3
            /\ Count(effects, "set_wire") = N
            /\ \A i \in 1 .. N :
                /\ effects[2 + i].k = "set_wire"
                /\ effects[2 + i].v.wire = req[i].wire
                /\ effects[2 + i].v.connect = req[i].connect
            /\ effects[N + 3].k = "reply"
            /\ DOMAIN effects[N + 3].v.reply = 1 .. N
            /\ \A i \in 1 .. N :
                effects[N + 3].v.reply[i] = effects[2 + i].v.ok
            /\ (/\ req = <<[wire |-> 2, connect |-> TRUE],
                           [wire |-> 5, connect |-> FALSE]>>
                /\ effects[3].v.ok
                /\ ~effects[4].v.ok) => effects[5].v.reply = <<TRUE, FALSE>>

C3_Witness ==
    /\ CallIs(effects, "handle_req")
    /\ effects[2].v.req = <<[wire |-> 2, connect |-> TRUE],
                            [wire |-> 5, connect |-> FALSE]>>
    /\ Len(effects) = 5
    /\ effects[5].k = "reply"
    /\ effects[5].v.reply = <<TRUE, FALSE>>

\* C4: every dispatch of the control channel receives exactly one request
\* and, before the handler returns, sends exactly one reply on the same
\* socket, whatever the number of failed items (all of them, or none in an
\* empty request).
C4_OneReplyPerRequest ==
    /\ (pc = "disp2" /\ 1 \in revents) => CallIs(effects, "handle_req")
    /\ CallIs(effects, "handle_req") =>
        /\ pc = "disp2"
        /\ 1 \in revents
        /\ Count(effects, "recv") = 1
        /\ Count(effects, "reply") = 1
        /\ effects[2].k = "recv"
        /\ effects[Len(effects)].k = "reply"
        /\ effects[Len(effects)].v.s = effects[2].v.s

C4_Witness ==
    /\ CallIs(effects, "handle_req")
    /\ Len(effects[2].v.req) = 2
    /\ Len(effects) = 5
    /\ effects[5].k = "reply"
    /\ effects[5].v.reply = <<FALSE, FALSE>>

\* C5: a subscription notification that is empty or starts with a zero byte
\* emits no event and leaves DeviceState alone; one that starts with a
\* nonzero byte emits exactly one event, whatever bytes follow.
C5_IgnoreUnsubscribe ==
    [][(pc = "disp2" /\ 2 \in revents) =>
        /\ CallIs(effects', "got_new_subscriber")
        /\ effects'[2].k = "sub_recv"
        /\ LET msg == effects'[2].v
           IN  IF Len(msg) < 1 \/ msg[1] = 0
               THEN /\ Count(effects', "publish") = 0
                    /\ nbp' = nbp
               ELSE Count(effects', "publish") = 1]_vars

C5_Witness ==
    /\ CallIs(effects, "got_new_subscriber")
    /\ effects[2].v = <<0, 65>>
    /\ Len(effects) = 2
    /\ nbp.has_weather


\* A step of got_new_subscriber on a notification whose first byte is nonzero.
SubscribeStep ==
    /\ pc = "disp2"
    /\ 2 \in revents
    /\ CallIs(effects', "got_new_subscriber")
    /\ Len(effects'[2].v) >= 1
    /\ effects'[2].v[1] # 0

Emitted(eff) == eff[3].v.ev

NothingKnown(dev) ==
    /\ ~dev.has_weather
    /\ ~dev.has_powerinfo
    /\ \A i \in Wires : dev.fet_asserted[i] = "FTS_UNKNOWN"

\* C6: a subscribe processed while DeviceState holds no weather reading, no
\* power reading and only unknown wires still emits an event, with no weather
\* sub-record, no battery sub-record and an empty wire-change list.
C6_EmptySnapshot ==
    [][(SubscribeStep /\ NothingKnown(nbp)) =>
        /\ Len(effects') = 3
        /\ effects'[3].k = "publish"
        /\ Emitted(effects').weather = <<>>
        /\ Emitted(effects').battery = <<>>
        /\ Emitted(effects').wire_change = <<>>]_vars

C6_Witness ==
    /\ CallIs(effects, "got_new_subscriber")
    /\ effects[2].v = <<1>>
    /\ NothingKnown(nbp)
    /\ Len(effects) = 3
    /\ effects[3].k = "publish"
    /\ Emitted(effects) = PbEvent(<<>>, <<>>, <<>>)

\* C7: the snapshot carries a weather sub-record iff a weather callback has
\* occurred, and then its temperature and humidity are those of the most
\* recent weather callback.
C7_LatestWeather ==
    [][SubscribeStep =>
        /\ Len(effects') = 3
        /\ effects'[3].k = "publish"
        /\ Emitted(effects').weather =
              IF last_weather = <<>> THEN <<>>
              ELSE <<[temperature |-> last_weather[1],
                      humidity |-> last_weather[2]]>>]_vars

C7_Witness ==
    /\ CallIs(effects, "got_new_subscriber")
    /\ Len(effects) = 3
    /\ effects[3].k = "publish"
    /\ last_weather = <<2200, 460>>
    /\ Emitted(effects).weather = <<[temperature |-> 2200, humidity |-> 460]>>

\* C8: the snapshot's wire-change list has exactly one entry for each wire
\* whose asserted state is not unknown, with that wire's asserted value, no
\* entry for an unknown wire, and strictly ascending wire ids.
C8_WireChangeList ==
    [][SubscribeStep =>
        /\ Len(effects') = 3
        /\ effects'[3].k = "publish"
        /\ LET wc == Emitted(effects').wire_change
           IN  /\ \A i \in 1 .. Len(wc) : \A j \in 1 .. Len(wc) :
                     i < j => wc[i].wire < wc[j].wire
               /\ {wc[i].wire : i \in 1 .. Len(wc)} =
                     {x \in Wires : nbp.fet_asserted[x] # "FTS_UNKNOWN"}
               /\ \A i \in 1 .. Len(wc) :
                     wc[i].connect = (nbp.fet_asserted[wc[i].wire] = "FTS_TRUE")]_vars

C8_Witness ==
    /\ CallIs(effects, "got_new_subscriber")
    /\ Len(effects) = 3
    /\ effects[3].k = "publish"
    /\ Emitted(effects).wire_change = <<[wire |-> 0, connect |-> TRUE],
                                        [wire |-> 5, connect |-> FALSE]>>

\* C9: an iteration that finds the deadline passed at 'now' sends exactly one
\* periodic-refresh message and sets the deadline to now + 30 s; two
\* consecutive loop-triggered sends are at least 30 s apart.
C9_RefreshFromNow ==
    [][(pc = "loop" /\ pc' = "poll"
        /\ timespec_passed(ts_next_periodic_req, ts_now')) =>
        /\ n_periodic' = n_periodic + 1
        /\ Len(effects') = 1
        /\ IsSend(effects'[1], "NBPM_REQ_PERIODIC")
        /\ ts_next_periodic_req' = ts_now' + periodic_req_interval
        /\ last_loop_req' = ts_now'
        /\ timespec_isset(last_loop_req) =>
              ts_now' - last_loop_req >= periodic_req_interval]_vars

C9_Witness ==
    /\ pc = "poll"
    /\ n_periodic = 3
    /\ last_loop_req = 70
    /\ ts_now = 70
    /\ ts_next_periodic_req = 100

Sent(eff) == eff[2].v.ev

\* C11: each weather callback(temperature, humidity) leaves that reading in
\* DeviceState and emits exactly one event, whose weather sub-record holds
\* exactly those two values, with no battery sub-record and no wire change.
C11_WeatherEvent ==
    [][(pc = "nbp_read" /\ CallIs(effects', "msg_weather")) =>
        /\ Len(effects') = 2
        /\ effects'[2].k = "publish"
        /\ Sent(effects') =
              PbEvent(<<[temperature |-> last_weather'[1],
                         humidity |-> last_weather'[2]]>>, <<>>, <<>>)
        /\ nbp'.has_weather
        /\ nbp'.temperature = last_weather'[1]
        /\ nbp'.humidity = last_weather'[2]]_vars

C11_Witness ==
    /\ CallIs(effects, "msg_weather")
    /\ Len(effects) = 2
    /\ effects[2].k = "publish"
    /\ last_weather = <<2150, 455>>
    /\ Sent(effects).weather = <<[temperature |-> 2150, humidity |-> 455]>>
    /\ nbp.temperature = 2150
    /\ nbp.humidity = 455

\* Bit 6 (0x40) of the flags is clear.
Bit6Clear(flags) == flags % 128 < 64

BatteryOf(reading) ==
    IF reading = <<>> THEN <<>>
    ELSE <<[charging |-> Bit6Clear(reading[1]), voltage |-> reading[2]]>>

\* C12: each power-status callback emits exactly one event with only the
\* battery sub-record, voltage being the battery voltage and charging true
\* iff bit 6 of the flags is clear; a snapshot has a battery sub-record iff
\* a power reading exists, and it equals the one the most recent
\* power-status callback sent.
C12_BatteryEvent ==
    [][/\ (pc = "nbp_read" /\ CallIs(effects', "msg_power_status")) =>
            /\ Len(effects') = 2
            /\ effects'[2].k = "publish"
            /\ history'.power # <<>>
            /\ Sent(effects') = PbEvent(<<>>, BatteryOf(history'.power), <<>>)
            /\ history'.battery = Sent(effects').battery
       /\ SubscribeStep =>
            /\ Len(effects') = 3
            /\ effects'[3].k = "publish"
            /\ (Emitted(effects').battery # <<>>) = nbp.has_powerinfo
            /\ nbp.has_powerinfo = (history.power # <<>>)
            /\ Emitted(effects').battery = history.battery
            /\ Emitted(effects').battery = BatteryOf(history.power)]_vars

C12_Witness ==
    /\ CallIs(effects, "got_new_subscriber")
    /\ Len(effects) = 3
    /\ effects[3].k = "publish"
    /\ history.power = <<64, 3700>>
    /\ Emitted(effects).battery = <<[charging |-> FALSE, voltage |-> 3700]>>

\* C13: each wire-assert callback(wire, connect) leaves that value as the
\* wire's asserted state and emits exactly one event whose wire-change list
\* is that single (wire, connect) entry, with no weather or battery
\* sub-record; a later snapshot reports the wire with the value of the most
\* recent assert.
C13_WireAssertEvent ==
    [][/\ (pc = "nbp_read" /\ CallIs(effects', "my_nbp_control_fet_cb")) =>
            /\ Len(effects') = 2
            /\ effects'[2].k = "publish"
            /\ Sent(effects').weather = <<>>
            /\ Sent(effects').battery = <<>>
            /\ Len(Sent(effects').wire_change) = 1
            /\ LET e == Sent(effects').wire_change[1]
               IN  /\ e.wire \in Wires
                   /\ history'.fet[e.wire] = <<e.connect>>
                   /\ nbp'.fet_asserted[e.wire] =
                         IF e.connect THEN "FTS_TRUE" ELSE "FTS_FALSE"
                   /\ \A x \in Wires \ {e.wire} :
                         /\ history'.fet[x] = history.fet[x]
                         /\ nbp'.fet_asserted[x] = nbp.fet_asserted[x]
       /\ SubscribeStep =>
            /\ Len(effects') = 3
            /\ effects'[3].k = "publish"
            /\ LET wc == Emitted(effects').wire_change
               IN  \A x \in Wires :
                     history.fet[x] # <<>> =>
                        \E i \in 1 .. Len(wc) :
                            /\ wc[i].wire = x
                            /\ wc[i].connect = history.fet[x][1]]_vars

C13_Witness ==
    /\ CallIs(effects, "my_nbp_control_fet_cb")
    /\ Len(effects) = 2
    /\ effects[2].k = "publish"
    /\ Sent(effects).wire_change = <<[wire |-> 5, connect |-> FALSE]>>
    /\ nbp.fet_asserted[5] = "FTS_FALSE"
    /\ nbp.fet_asserted[0] = "FTS_TRUE"


\* The ready sources among those in S, in ascending order of poll item.
Ready(S) ==
    (IF 0 \in revents \cap S THEN <<0>> ELSE <<>>)
    \o (IF 1 \in revents \cap S THEN <<1>> ELSE <<>>)
    \o (IF 2 \in revents \cap S THEN <<2>> ELSE <<>>)

\* C14: in one loop iteration every source the poll reported ready is
\* dispatched exactly once and no other source is dispatched: the device
\* link to nbp_read, the control channel to handle_req, the publish channel
\* to got_new_subscriber, in that order; all of them have been serviced when
\* the deadline is next evaluated.
C14_DispatchOnce ==
    [][/\ pc = "disp0" =>
            /\ dispatched = <<>>
            /\ dispatched' = Ready({0})
            /\ IF 0 \in revents
               THEN CallIs(effects', "nbp_read") /\ pc' = "nbp_read"
               ELSE effects' = <<>> /\ pc' = "disp1"
       /\ pc = "nbp_read" =>
            /\ dispatched' = dispatched
            /\ pc' \in {"nbp_read", "disp1", "aborted"}
            /\ ~CallIs(effects', "nbp_read")
            /\ ~CallIs(effects', "handle_req")
            /\ ~CallIs(effects', "got_new_subscriber")
       /\ pc = "disp1" =>
            /\ dispatched = Ready({0})
            /\ dispatched' = Ready({0, 1})
            /\ IF 1 \in revents
               THEN CallIs(effects', "handle_req")
               ELSE effects' = <<>>
            /\ pc' = "disp2"
       /\ pc = "disp2" =>
            /\ dispatched = Ready({0, 1})
            /\ dispatched' = Ready({0, 1, 2})
            /\ IF 2 \in revents
               THEN CallIs(effects', "got_new_subscriber")
               ELSE effects' = <<>>
            /\ pc' = "loop"
       /\ (pc = "loop" /\ pc' = "poll") => dispatched = Ready({0, 1, 2})
       /\ pc \in {"loop", "poll"} =>
            /\ ~CallIs(effects', "nbp_read")
            /\ ~CallIs(effects', "handle_req")
            /\ ~CallIs(effects', "got_new_subscriber")]_vars

C14_Witness ==
    /\ pc = "loop"
    /\ revents = {0, 1, 2}
    /\ dispatched = <<0, 1, 2>>
    /\ CallIs(effects, "got_new_subscriber")


\* Milliseconds from now to the deadline; zero once the deadline is reached.
Remaining(deadline, now) ==
    IF deadline <= now THEN 0 ELSE (deadline - now) * 1000

\* C15: whenever the poll is about to start while a deadline is set, its
\* timeout is the time remaining until that deadline, also in the iteration
\* that has just rescheduled the deadline to now + 30 s; it is never unbounded.
C15_TimeoutIsRemaining ==
    (pc = "poll" /\ timespec_isset(ts_next_periodic_req)) =>
        /\ PollMs # -1
        /\ PollMs = Remaining(ts_next_periodic_req, ts_now)


\* C16: a poll that returns zero (timeout) or a negative value (error) is not
\* fatal: no handler is dispatched in that iteration, DeviceState and the
\* channels are unchanged, nothing is sent, and the loop goes back to
\* reading the clock and checking the deadline.
C16_PollFailureReloops ==
    [][(/\ pc = "poll"
        /\ Len(effects') = 1
        /\ effects'[1].k = "zmq_poll"
        /\ effects'[1].v <= 0) =>
            /\ pc' = "loop"
            /\ dispatched' = <<>>
            /\ nbp' = nbp
            /\ ctl_bound' = ctl_bound
            /\ pub_bound' = pub_bound
            /\ ts_next_periodic_req' = ts_next_periodic_req
            /\ n_periodic' = n_periodic
            /\ history' = history]_vars

C16_Witness ==
    /\ pc = "loop"
    /\ Len(effects) = 1
    /\ effects[1].k = "zmq_poll"
    /\ effects[1].v = -1
    /\ dispatched = <<>>
    /\ n_reset_complete = 1
    /\ nbp.has_weather


\* A setup step of the last action failed: nbp_open, the send of the reset
\* message, or a bind.
SetupFailed(eff) ==
    \E i \in 1 .. Len(eff) :
        \/ eff[i].k = "nbp_open" /\ ~eff[i].v
        \/ eff[i].k = "sent" /\ ~eff[i].v
        \/ eff[i].k = "bind" /\ ~eff[i].v.ok

\* C17: if opening the device, sending the reset message, binding the
\* control endpoint, or binding the publish endpoint inside reset_complete
\* fails, the process is aborted, and an aborted process takes no further
\* step: no handler, no reply, no event.
C17_SetupFailureFatal ==
    [][/\ SetupFailed(effects') => pc' = "aborted"
       /\ pc # "aborted"]_vars

C17_Witness ==
    /\ pc = "aborted"
    /\ n_reset_complete = 1
    /\ Len(effects) = 3
    /\ CallIs(effects, "reset_complete")
    /\ IsBind(effects[3], "events")
    /\ ~effects[3].v.ok
    /\ ~pub_bound
    /\ revents = {0, 1}
    /\ dispatched = <<0>>


InLoop == pc \in {"loop", "poll", "disp0", "nbp_read", "disp1", "disp2"}

\* C18: the refresh deadline is unset when the loop starts and stays unset
\* until reset_complete runs, so no periodic-refresh message is sent before
\* reset-complete has been delivered; the first periodic-refresh send of the
\* process is the one made inside reset_complete.
C18_NoRefreshBeforeReset ==
    /\ [](n_reset_complete = 0 =>
            /\ n_periodic = 0
            /\ InLoop => ~timespec_isset(ts_next_periodic_req))
    /\ [][/\ n_periodic' > n_periodic => n_periodic' = n_periodic + 1
          /\ (n_periodic = 0 /\ n_periodic' > 0) =>
                /\ pc = "nbp_read"
                /\ n_reset_complete = 0
                /\ n_reset_complete' = 1
                /\ CallIs(effects', "reset_complete")
                /\ Len(effects') >= 2
                /\ IsSend(effects'[2], "NBPM_REQ_PERIODIC")
                /\ timespec_isset(ts_next_periodic_req')]_vars

C18_Witness ==
    /\ CallIs(effects, "reset_complete")
    /\ n_reset_complete = 1
    /\ n_periodic = 1
    /\ clock = 40
    /\ ts_next_periodic_req = 70


\* The same world with the reset state flipped: the reset callback
\* registered or not, the publish endpoint bound or not, the deadline set or
\* not.
OtherResetState(w) ==
    [w EXCEPT !.nbp.cb_msg_fet_presence =
                  IF @ = "NULL" THEN "reset_complete" ELSE "NULL",
              !.bound = ~@,
              !.next = IF @ = Cleared THEN periodic_req_interval ELSE Cleared]

\* C19: the control channel is bound whenever the loop runs, before and
\* after reset-complete; a request handled before reset-complete makes its
\* set-wire calls and gets a reply of the same length, exactly as it would
\* with the reset state flipped; handle_req leaves the reset state alone.
C19_ControlBeforeReset ==
    /\ InLoop => ctl_bound
    /\ (pc = "disp1" /\ 1 \in revents) =>
        \A req \in SeqsUpTo(ReqItems, MaxReq) :
            \A fails \in SUBSET (1 .. Len(req)) :
                LET a == handle_req(World, "my_zmq_ctl", req, fails)
                    b == handle_req(OtherResetState(World), "my_zmq_ctl", req, fails)
                IN  /\ Len(a.eff) = Len(req) + 3
                    /\ Len(b.eff) = Len(req) + 3
                    /\ a.eff = b.eff
                    /\ a.nbp = nbp
                    /\ a.bound = pub_bound
                    /\ a.next = ts_next_periodic_req
                    /\ a.nrc = n_reset_complete
                    /\ ~a.abort
    /\ (CallIs(effects, "handle_req") /\ n_reset_complete = 0) =>
        /\ pc = "disp2"
        /\ Count(effects, "set_wire") = Len(effects[2].v.req)
        /\ effects[Len(effects)].k = "reply"
        /\ DOMAIN effects[Len(effects)].v.reply = 1 .. Len(effects[2].v.req)

C19_Witness ==
    /\ CallIs(effects, "handle_req")
    /\ n_reset_complete = 0
    /\ nbp.cb_msg_fet_presence = "reset_complete"
    /\ ~pub_bound
    /\ Len(effects) = 5
    /\ effects[3].k = "set_wire"
    /\ effects[4].k = "set_wire"
    /\ effects[5].k = "reply"
    /\ effects[5].v.reply = <<TRUE, TRUE>>


\* The effects a subscription notification must not have.
TouchesDeviceOrControl(eff) ==
    \E i \in 1 .. Len(eff) :
        eff[i].k \in {"nbp_send", "sent", "set_wire", "recv", "reply", "bind"}

\* C20: handling a subscription notification leaves DeviceState, the
\* refresh deadline and the registered callbacks unchanged, sends nothing to
\* the device and nothing on the control channel; two subscribes handled
\* with no device callback between them emit identical snapshots.
C20_SubscribeReadOnly ==
    [][/\ (pc = "disp2" /\ 2 \in revents) =>
            /\ CallIs(effects', "got_new_subscriber")
            /\ nbp' = nbp
            /\ ts_next_periodic_req' = ts_next_periodic_req
            /\ n_periodic' = n_periodic
            /\ n_reset_complete' = n_reset_complete
            /\ ctl_bound' = ctl_bound
            /\ pub_bound' = pub_bound
            /\ ~TouchesDeviceOrControl(effects')
       /\ SubscribeStep =>
            /\ Len(effects') = 3
            /\ effects'[3].k = "publish"
            /\ history'.snapshot # <<>>
            /\ history'.snapshot[Len(history'.snapshot)] = Emitted(effects')
            /\ history.snapshot # <<>> =>
                  Emitted(effects') = history.snapshot[Len(history.snapshot)]]_vars

C20_Witness ==
    /\ CallIs(effects, "got_new_subscriber")
    /\ Len(effects) = 3
    /\ effects[3].k = "publish"
    /\ Len(history.snapshot) = 2
    /\ history.snapshot[1] = history.snapshot[2]
    /\ history.snapshot[2] = Emitted(effects)
    /\ Emitted(effects).weather # <<>>
    /\ Emitted(effects).battery # <<>>

====
